---- MODULE Spec2Model ----
(***************************************************************************)
(* Camera health monitor (src/Camera.py).                                  *)
(*                                                                         *)
(* main_loop probes every configured camera in turn with check_camera,     *)
(* which runs up to RETRIES attempts (open the stream, read frames for     *)
(* READ_FRAME_TIMEOUT_SEC seconds), compares the outcome with the stored   *)
(* camera_status, logs a status change (log_status_change appends a row to *)
(* status_changes, bumps sno_counter and mails the whole table) and stores *)
(* the new status.  Every statement that changes state is one step of the  *)
(* model, so that an interrupt can fall between any two of them.           *)
(***************************************************************************)
EXTENDS Integers, Sequences, FiniteSets, TLC

\* ---------------------------------------------------------------- CONFIG
\* The CAMERAS dictionary in iteration order.  The repository configures
\* one entry; two are modelled so that rows of different cameras interleave.
CAMERAS == <<"camA", "camB">>

RETRIES == 3
READ_FRAME_TIMEOUT_SEC == 5
VARIANCE_THRESHOLD == 10
\* time.sleep(1) between two reads of one attempt
READ_POLL_SEC == 1

\* Python's None (the status of a camera that was never probed, a call
\* that has not returned, a new_status that is not yet assigned).
None == "None"

\* ---------------------------------------------------------------- bounds
\* CallCheckCamera is disabled once the history holds MaxEvents rows.
MaxEvents == 4
\* A cap.read() call takes 0..MaxReadSec seconds.
MaxReadSec == 2
\* The run statistics stop counting at MaxRun probes.
MaxRun == 3

\* ---------------------------------------------------------------- state
VARIABLES
    camera_status,   \* global: camera name -> None | "online" | "offline"
    status_changes,  \* global: the rows logged so far
    sno_counter,     \* global: the S.No of the next row
    pc,              \* the statement main_loop / check_camera is at
    idx,             \* main_loop: position of the for loop in CAMERAS
    camera_name,     \* check_camera: parameter
    prev_status,     \* check_camera: local read on entry
    new_status,      \* check_camera: local, None until the outcome is decided
    attempt,         \* check_camera: loop variable of the retry loop
    cap_open,        \* check_camera: cap holds an open stream
    elapsed,         \* check_camera: time.time() - start, saturating
    ret,             \* value returned by the last completed check_camera
    body_html,       \* send_email_alert: the body of the last invocation
    email_log,       \* send_email_alert: what the last invocation logged
    \* observation variables (written by the model, never read by a guard)
    entry,           \* globals and sends as they were on entry to the probe
    sends,           \* number of send_email_alert invocations so far
    failed,          \* attempts of the current probe that have failed
    failed_open,     \* ... of which failed because the stream did not open
    reads,           \* cap.read() calls in the current attempt
    valid_seen,      \* a read of the current probe returned a valid frame
    run              \* per camera: the current run of equal outcomes

vars == <<camera_status, status_changes, sno_counter, pc, idx, camera_name,
          prev_status, new_status, attempt, cap_open, elapsed, ret,
          body_html, email_log, entry, sends, failed, failed_open, reads,
          valid_seen, run>>

CameraNames == {CAMERAS[i] : i \in 1..Len(CAMERAS)}

Min(a, b) == IF a < b THEN a ELSE b

\* ---------------------------------------------------------------- frames
\* What cap.read() can hand back: no frame, a zero-size array, an array
\* cv2.cvtColor rejects, or a BGR image whose gray variance is var.
FrameVars == {0, VARIANCE_THRESHOLD - 1, VARIANCE_THRESHOLD, VARIANCE_THRESHOLD + 1}

Frames ==
    {[kind |-> "none", var |-> 0], [kind |-> "empty", var |-> 0]}
    \cup {[kind |-> k, var |-> v] : k \in {"malformed", "bgr"}, v \in FrameVars}

is_frame_valid(frame) ==
    IF frame.kind = "none" \/ frame.kind = "empty" THEN FALSE
    ELSE IF frame.kind = "malformed" THEN FALSE
    ELSE frame.var >= VARIANCE_THRESHOLD

\* ---------------------------------------------------------------- helpers
\* variants of the comparison: no row for a camera that was never probed;
\* no comparison at all; every offline outcome counts as a change
StatusDiffers_NotFirst(prev, new) == prev # None /\ prev # new

StatusDiffers_Always(prev, new) == TRUE

StatusDiffers_OfflineAlways(prev, new) == new = "offline" \/ prev # new

\* `if prev_status != new_status`
StatusDiffers(prev, new) == prev # new

\* `prev_status or "offline"` / `prev_status or "online"`
PrevOr(prev, default) == IF prev = None THEN default ELSE prev

\* variant: the two defaults exchanged
LogPrev_Swapped(prev, new) ==
    IF new = "online" THEN PrevOr(prev, "online") ELSE PrevOr(prev, "offline")

\* the previous status handed to log_status_change
LogPrev(prev, new) ==
    IF new = "online" THEN PrevOr(prev, "offline") ELSE PrevOr(prev, "online")

\* variant: previous and new status exchanged in the row
Entry_Swapped(sno, name, prev, new) ==
    [sno |-> sno, name |-> name, prev |-> new, new |-> prev,
     color |-> IF new = "online" THEN "green" ELSE "red"]

\* the row log_status_change formats
Entry(sno, name, prev, new) ==
    [sno |-> sno, name |-> name, prev |-> prev, new |-> new,
     color |-> IF new = "online" THEN "green" ELSE "red"]

\* variant: status_changes.insert(0, entry)
AppendEntry_Front(h, e) == <<e>> \o h

\* status_changes.append(entry)
AppendEntry(h, e) == Append(h, e)

\* variant: the increment is missing
NextSno_Stuck(n) == n

\* variant: the counter is bumped twice
NextSno_Twice(n) == n + 2

\* sno_counter += 1
NextSno(n) == n + 1

\* variant: `range(1, RETRIES)`
MoreAttempts_Short(a) == a < RETRIES

\* `for attempt in range(1, RETRIES + 1)`
MoreAttempts(a) == a <= RETRIES

\* `while time.time() - start < READ_FRAME_TIMEOUT_SEC`
WithinWindow(el) == el < READ_FRAME_TIMEOUT_SEC

\* elapsed time is only ever compared with the window: saturate there
Later(el, d) == Min(el + d, READ_FRAME_TIMEOUT_SEC)

\* ---------------------------------------------------------------- Init
Init ==
    /\ camera_status = [c \in CameraNames |-> None]
    /\ status_changes = <<>>
    /\ sno_counter = 1
    /\ pc = "main_for"
    /\ idx = 1
    /\ camera_name = None
    /\ prev_status = None
    /\ new_status = None
    /\ attempt = 1
    /\ cap_open = FALSE
    /\ elapsed = 0
    /\ ret = None
    /\ body_html = <<>>
    /\ email_log = None
    /\ entry = [camera_status |-> [c \in CameraNames |-> None],
                status_changes |-> <<>>, sno_counter |-> 1, sends |-> 0]
    /\ sends = 0
    /\ failed = 0
    /\ failed_open = 0
    /\ reads = 0
    /\ valid_seen = FALSE
    /\ run = [c \in CameraNames |->
                [len |-> 0, events |-> 0, from |-> None, outcome |-> None,
                 state |-> None]]

globals == <<camera_status, status_changes, sno_counter>>
mail == <<body_html, email_log, sends>>
locals == <<camera_name, prev_status, new_status, attempt, cap_open, elapsed>>
probe_obs == <<entry, failed, failed_open, reads, valid_seen>>

\* ---------------------------------------------------------------- main_loop
\* `for cam_name, rtsp in CAMERAS.items(): check_camera(cam_name, rtsp)`
\* together with the entry of check_camera: prev_status is read.
CallCheckCamera ==
    /\ pc = "main_for"
    /\ idx <= Len(CAMERAS)
    /\ Len(status_changes) < MaxEvents
    /\ camera_name' = CAMERAS[idx]
    /\ prev_status' = camera_status[CAMERAS[idx]]
    /\ new_status' = None
    /\ attempt' = 1
    /\ elapsed' = 0
    /\ ret' = None
    /\ entry' = [camera_status |-> camera_status,
                 status_changes |-> status_changes,
                 sno_counter |-> sno_counter, sends |-> sends]
    /\ failed' = 0
    /\ failed_open' = 0
    /\ reads' = 0
    /\ valid_seen' = FALSE
    /\ pc' = "for_attempt"
    /\ UNCHANGED <<globals, mail, idx, cap_open, run>>

\* variant: the enclosing `while True` is missing, one cycle only
IntervalSleep_Once ==
    /\ pc = "main_for"
    /\ idx = Len(CAMERAS) + 1
    /\ pc' = "stopped"
    /\ UNCHANGED <<globals, mail, locals, probe_obs, idx, ret, run>>

\* variant: the next cycle starts before the for loop is through
IntervalSleep_Early ==
    /\ pc = "main_for"
    /\ idx >= 2
    /\ idx' = 1
    /\ UNCHANGED <<globals, mail, locals, probe_obs, pc, ret, run>>

\* `time.sleep(CHECK_INTERVAL_SEC)` and the next turn of `while True`
IntervalSleep ==
    /\ pc = "main_for"
    /\ idx = Len(CAMERAS) + 1
    /\ idx' = 1
    /\ UNCHANGED <<globals, mail, locals, probe_obs, pc, ret, run>>

\* `except KeyboardInterrupt`: the signal can arrive at any statement of
\* the loop, of check_camera, log_status_change or send_email_alert (whose
\* `except Exception` does not catch it).
KeyboardInterrupt ==
    /\ pc # "stopped"
    /\ pc' = "stopped"
    /\ UNCHANGED <<globals, mail, locals, probe_obs, idx, ret, run>>

\* ---------------------------------------------------------------- check_camera
\* head of the retry loop
ForAttempt ==
    /\ pc = "for_attempt"
    /\ pc' = IF MoreAttempts(attempt) THEN "open" ELSE "all_failed"
    /\ reads' = IF MoreAttempts(attempt) THEN 0 ELSE reads
    /\ UNCHANGED <<globals, mail, locals, entry, failed, failed_open,
                   valid_seen, idx, ret, run>>

\* `cap = cv2.VideoCapture(rtsp_url)`, `cap.isOpened()`, `start = time.time()`
OpenCapture ==
    /\ pc = "open"
    /\ \E outcome \in {"raised", "not_opened", "opened"} :
          IF outcome = "opened"
          THEN /\ cap_open' = TRUE
               /\ elapsed' = 0
               /\ pc' = "while_window"
          ELSE /\ pc' = "backoff"
               /\ UNCHANGED <<cap_open, elapsed>>
    /\ UNCHANGED <<globals, mail, camera_name, prev_status, new_status,
                   attempt, probe_obs, idx, ret, run>>

\* `time.sleep(2); continue`
Backoff ==
    /\ pc = "backoff"
    /\ failed' = failed + 1
    /\ failed_open' = failed_open + 1
    /\ attempt' = attempt + 1
    /\ pc' = "for_attempt"
    /\ UNCHANGED <<globals, mail, camera_name, prev_status, new_status,
                   cap_open, elapsed, entry, reads, valid_seen, idx, ret, run>>

\* the condition of the read loop
WhileWindow ==
    /\ pc = "while_window"
    /\ pc' = IF WithinWindow(elapsed) THEN "read" ELSE "release_failed"
    /\ UNCHANGED <<globals, mail, locals, probe_obs, idx, ret, run>>

\* variant: a valid frame does not leave the read loop
ReadFrame_NoReturn ==
    /\ pc = "read"
    /\ reads' = reads + 1
    /\ \E d \in 0..MaxReadSec, r \in BOOLEAN, frame \in Frames :
          /\ elapsed' = Later(elapsed, d)
          /\ valid_seen' = (valid_seen \/ (r /\ is_frame_valid(frame)))
          /\ pc' = "poll_sleep"
    /\ UNCHANGED <<globals, mail, camera_name, prev_status, new_status,
                   attempt, cap_open, entry, failed, failed_open, idx, ret,
                   run>>

\* `ret, frame = cap.read()` and `if ret and is_frame_valid(frame)`
ReadFrame ==
    /\ pc = "read"
    /\ reads' = reads + 1
    /\ \E d \in 0..MaxReadSec, r \in BOOLEAN, frame \in Frames :
          /\ elapsed' = Later(elapsed, d)
          /\ IF r /\ is_frame_valid(frame)
             THEN pc' = "release_ok" /\ valid_seen' = TRUE
             ELSE pc' = "poll_sleep" /\ UNCHANGED valid_seen
    /\ UNCHANGED <<globals, mail, camera_name, prev_status, new_status,
                   attempt, cap_open, entry, failed, failed_open, idx, ret,
                   run>>

\* `time.sleep(1)`
PollSleep ==
    /\ pc = "poll_sleep"
    /\ elapsed' = Later(elapsed, READ_POLL_SEC)
    /\ pc' = "while_window"
    /\ UNCHANGED <<globals, mail, camera_name, prev_status, new_status,
                   attempt, cap_open, probe_obs, idx, ret, run>>

\* variant: the release after an expired window is missing
ReleaseFailed_NoRelease ==
    /\ pc = "release_failed"
    /\ failed' = failed + 1
    /\ attempt' = attempt + 1
    /\ pc' = "for_attempt"
    /\ UNCHANGED <<globals, mail, camera_name, prev_status, new_status,
                   cap_open, elapsed, entry, failed_open, reads, valid_seen,
                   idx, ret, run>>

\* the window ran out: `cap.release()`, next attempt
ReleaseFailed ==
    /\ pc = "release_failed"
    /\ cap_open' = FALSE
    /\ failed' = failed + 1
    /\ attempt' = attempt + 1
    /\ pc' = "for_attempt"
    /\ UNCHANGED <<globals, mail, camera_name, prev_status, new_status,
                   elapsed, entry, failed_open, reads, valid_seen, idx, ret,
                   run>>

\* a valid frame: `cap.release(); new_status = "online"`
ReleaseOk ==
    /\ pc = "release_ok"
    /\ cap_open' = FALSE
    /\ new_status' = "online"
    /\ pc' = "compare"
    /\ UNCHANGED <<globals, mail, camera_name, prev_status, attempt, elapsed,
                   probe_obs, idx, ret, run>>

\* variant: the status is stored as soon as the retries are exhausted
AllFailed_StoresStatus ==
    /\ pc = "all_failed"
    /\ new_status' = "offline"
    /\ camera_status' = [camera_status EXCEPT ![camera_name] = "offline"]
    /\ pc' = "compare"
    /\ UNCHANGED <<status_changes, sno_counter, mail, camera_name,
                   prev_status, attempt, cap_open, elapsed, probe_obs, idx,
                   ret, run>>

\* all retries failed: `new_status = "offline"`
AllFailed ==
    /\ pc = "all_failed"
    /\ new_status' = "offline"
    /\ pc' = "compare"
    /\ UNCHANGED <<globals, mail, camera_name, prev_status, attempt, cap_open,
                   elapsed, probe_obs, idx, ret, run>>

\* `if prev_status != new_status: log_status_change(...)`
Compare ==
    /\ pc = "compare"
    /\ pc' = IF StatusDiffers(prev_status, new_status)
             THEN "log_append" ELSE "set_status"
    /\ UNCHANGED <<globals, mail, locals, probe_obs, idx, ret, run>>

\* ---------------------------------------------------------------- log_status_change
\* format the row and `status_changes.append(entry)`
LogAppend ==
    /\ pc = "log_append"
    /\ status_changes' =
          AppendEntry(status_changes,
                      Entry(sno_counter, camera_name,
                            LogPrev(prev_status, new_status), new_status))
    /\ pc' = "log_incr"
    /\ UNCHANGED <<camera_status, sno_counter, mail, locals, probe_obs,
                   idx, ret, run>>

\* `sno_counter += 1`
LogIncr ==
    /\ pc = "log_incr"
    /\ sno_counter' = NextSno(sno_counter)
    /\ pc' = "log_mail"
    /\ UNCHANGED <<camera_status, status_changes, mail, locals, probe_obs,
                   idx, ret, run>>

\* variant: only the new row is mailed
LogMail_OnlyNewRow ==
    /\ pc = "log_mail"
    /\ body_html' = <<status_changes[Len(status_changes)]>>
    /\ sends' = sends + 1
    /\ pc' = "send"
    /\ UNCHANGED <<globals, email_log, locals, probe_obs, idx, ret, run>>

\* build table_html from ''.join(status_changes) and call send_email_alert
LogMail ==
    /\ pc = "log_mail"
    /\ body_html' = status_changes
    /\ sends' = sends + 1
    /\ pc' = "send"
    /\ UNCHANGED <<globals, email_log, locals, probe_obs, idx, ret, run>>

\* ---------------------------------------------------------------- send_email_alert
\* variant: the exception is not caught and ends main_loop
SendEmail_Raises ==
    /\ pc = "send"
    /\ \E ok \in BOOLEAN :
          /\ email_log' = IF ok THEN "sent" ELSE "error"
          /\ pc' = IF ok THEN "set_status" ELSE "stopped"
    /\ UNCHANGED <<globals, body_html, sends, locals, probe_obs, idx, ret, run>>

\* variant: a failed send is tried again
SendEmail_Retry ==
    /\ pc = "send"
    /\ \E ok \in BOOLEAN :
          /\ email_log' = IF ok THEN "sent" ELSE "error"
          /\ pc' = IF ok THEN "set_status" ELSE "log_mail"
    /\ UNCHANGED <<globals, body_html, sends, locals, probe_obs, idx, ret, run>>

\* the SMTP conversation either goes through or raises an Exception, which
\* is logged and swallowed; either way control returns to check_camera
SendEmail ==
    /\ pc = "send"
    /\ \E ok \in BOOLEAN : email_log' = IF ok THEN "sent" ELSE "error"
    /\ pc' = "set_status"
    /\ UNCHANGED <<globals, body_html, sends, locals, probe_obs, idx, ret, run>>

\* ---------------------------------------------------------------- check_camera, end
\* variant: `camera_status[camera_name] = prev_status`
SetStatus_StoresPrev ==
    /\ pc = "set_status"
    /\ camera_status' = [camera_status EXCEPT ![camera_name] = prev_status]
    /\ pc' = "return"
    /\ UNCHANGED <<status_changes, sno_counter, mail, locals, probe_obs,
                   idx, ret, run>>

\* `camera_status[camera_name] = new_status`
SetStatus ==
    /\ pc = "set_status"
    /\ camera_status' = [camera_status EXCEPT ![camera_name] = new_status]
    /\ pc' = "return"
    /\ UNCHANGED <<status_changes, sno_counter, mail, locals, probe_obs,
                   idx, ret, run>>

\* the run of equal outcomes of camera c after a probe with outcome o that
\* found status `from`, appended `delta` rows and left status `now`
RunAfter(r, o, from, delta, now) ==
    IF r.len > 0 /\ r.outcome = o
    THEN [r EXCEPT !.len = Min(r.len + 1, MaxRun),
                   !.events = Min(r.events + delta, 2)]
    ELSE [len |-> 1, events |-> Min(delta, 2), from |-> from, outcome |-> o,
          state |-> now]

\* `return True` / `return False`, back in the for loop of main_loop
Return ==
    /\ pc = "return"
    /\ ret' = IF new_status = "online" THEN "True" ELSE "False"
    /\ idx' = idx + 1
    /\ pc' = "main_for"
    /\ run' = [run EXCEPT ![camera_name] =
                  RunAfter(@, new_status, prev_status,
                           Len(status_changes) - Len(entry.status_changes),
                           camera_status[camera_name])]
    /\ UNCHANGED <<globals, mail, locals, probe_obs>>

\* ---------------------------------------------------------------- Next
Next ==
    \/ CallCheckCamera
    \/ IntervalSleep
    \/ KeyboardInterrupt
    \/ ForAttempt
    \/ OpenCapture
    \/ Backoff
    \/ WhileWindow
    \/ ReadFrame
    \/ PollSleep
    \/ ReleaseFailed
    \/ ReleaseOk
    \/ AllFailed
    \/ Compare
    \/ LogAppend
    \/ LogIncr
    \/ LogMail
    \/ SendEmail
    \/ SetStatus
    \/ Return

Spec == Init /\ [][Next]_vars

\* ---------------------------------------------------------------- types
Statuses == {"online", "offline"}

TypeOK ==
    /\ camera_status \in [CameraNames -> Statuses \cup {None}]
    /\ sno_counter \in 1..(MaxEvents + 1)
    /\ Len(status_changes) <= MaxEvents
    /\ idx \in 1..(Len(CAMERAS) + 1)
    /\ attempt \in 1..(RETRIES + 1)
    /\ elapsed \in 0..READ_FRAME_TIMEOUT_SEC
    /\ cap_open \in BOOLEAN
    /\ ret \in {None, "True", "False"}
    /\ new_status \in Statuses \cup {None}
    /\ prev_status \in Statuses \cup {None}

\* ---------------------------------------------------------------- properties
\* check_camera has returned and no later probe has started
Completed == pc = "main_for" /\ ret # None

\* the status the returned value stands for
OutcomeStatus == IF ret = "True" THEN "online" ELSE "offline"

\* the status stored for the probed camera when the probe started
StoredBefore == entry.camera_status[camera_name]

\* rows appended since the probe started
Appended == Len(status_changes) - Len(entry.status_changes)

LastRow == status_changes[Len(status_changes)]

IsPrefix(s, t) == Len(s) <= Len(t) /\ SubSeq(t, 1, Len(s)) = s

RowsOf(c) == SelectSeq(status_changes, LAMBDA e : e.name = c)

\* C1: a completed probe has appended a row (exactly one, for the probed
\* camera, with the outcome as new status) if and only if its outcome differs
\* from the status stored before the probe; a never-probed camera always
\* gets a row.
C1_EventIffOutcomeDiffers ==
    Completed =>
       /\ Appended \in {0, 1}
       /\ (Appended = 1) <=> (OutcomeStatus # StoredBefore)
       /\ (Appended = 1) =>
             /\ LastRow.name = camera_name
             /\ LastRow.new = OutcomeStatus
             /\ SubSeq(status_changes, 1, Len(status_changes) - 1)
                   = entry.status_changes
       /\ (StoredBefore = None) => (Appended = 1)

C1_Witness ==
    /\ Completed
    /\ StoredBefore = None
    /\ ret = "False"
    /\ Appended = 1
    /\ Len(entry.status_changes) >= 1

\* C2: every stored status starts as None; a status that is online or
\* offline never becomes None again; and once a probe of a camera has
\* completed its status is online or offline.
C2_UnknownNeverReentered ==
    /\ \A c \in CameraNames : camera_status[c] = None
    /\ [][\A c \in CameraNames :
            camera_status[c] # None => camera_status'[c] \in Statuses]_vars
    /\ [](\A c \in CameraNames :
            run[c].len >= 1 => camera_status[c] \in Statuses)

C2_Witness ==
    \E c \in CameraNames :
       /\ run[c].len >= 2
       /\ Len(RowsOf(c)) >= 2
       /\ camera_status[c] \in Statuses

\* C3: the i-th row of the history carries S.No i, whatever cameras the
\* rows belong to.
C3_SnoConsecutive ==
    \A i \in 1..Len(status_changes) : status_changes[i].sno = i

C3_Witness ==
    /\ Len(status_changes) >= 3
    /\ \E i, j \in 1..Len(status_changes) :
          i < j /\ status_changes[i].name # status_changes[j].name

\* C4: in every step the old history is a prefix of the new history.
C4_HistoryAppendOnly ==
    [][IsPrefix(status_changes, status_changes')]_vars

C4_Witness ==
    /\ email_log = "error"
    /\ Len(status_changes) >= 2
    /\ pc = "main_for"

\* C5: between probes, the current run of equal outcomes of a camera that
\* started from a different stored status has produced exactly one row, and
\* the stored status is the one the first probe of the run left.
C5_RunOneEvent ==
    pc = "main_for" =>
       \A c \in CameraNames :
          (run[c].len >= 1 /\ run[c].from # run[c].outcome) =>
             /\ run[c].events = 1
             /\ camera_status[c] = run[c].state
             /\ camera_status[c] = run[c].outcome

C5_Witness ==
    /\ pc = "main_for"
    /\ \E c \in CameraNames :
          /\ run[c].len >= MaxRun
          /\ run[c].from = "online"
          /\ run[c].outcome = "offline"
          /\ run[c].events = 1

\* C6: once a read has returned a valid frame the probe is only ever at the
\* statements that release the stream, record the outcome and return: it
\* reads, sleeps, opens and retries no more, the stream is closed from the
\* release on, and the probe returns True.
C6_ReturnOnFirstValidFrame ==
    /\ [](valid_seen =>
            /\ pc \in {"release_ok", "compare", "log_append", "log_incr",
                       "log_mail", "send", "set_status", "return",
                       "main_for", "stopped"}
            /\ (pc \in {"compare", "log_append", "log_incr", "log_mail",
                        "send", "set_status", "return", "main_for"}
                   => ~cap_open /\ new_status = "online")
            /\ (Completed => ret = "True"))
    /\ [][(valid_seen /\ valid_seen') =>
             /\ reads' = reads
             /\ attempt' = attempt
             /\ elapsed' = elapsed
             /\ failed' = failed]_vars

C6_Witness ==
    /\ valid_seen
    /\ Completed
    /\ ret = "True"
    /\ attempt >= 2
    /\ reads >= 2
    /\ elapsed < READ_FRAME_TIMEOUT_SEC

\* C7: a probe returns False only with RETRIES failed attempts behind it;
\* open failures and expired windows both count; no attempt beyond RETRIES
\* is made; an open failure is followed by the backoff without a read; no
\* read starts once the window has elapsed.
C7_FalseAfterRetries ==
    /\ failed = attempt - 1
    /\ failed_open <= failed
    /\ failed <= RETRIES
    /\ (pc \in {"open", "backoff", "while_window", "read", "poll_sleep",
                "release_failed", "release_ok"} => attempt <= RETRIES)
    /\ (pc = "backoff" => reads = 0 /\ ~cap_open)
    /\ (pc = "read" => elapsed < READ_FRAME_TIMEOUT_SEC /\ cap_open)
    /\ (new_status = "offline" => failed = RETRIES)
    /\ (Completed /\ ret = "False" => failed = RETRIES /\ ~valid_seen)

C7_Witness ==
    /\ Completed
    /\ ret = "False"
    /\ failed = RETRIES
    /\ failed_open = 1
    /\ reads >= 2

RowsChain(rows) ==
    \A i \in 1..(Len(rows) - 1) : rows[i + 1].prev = rows[i].new

\* C9: a probe that finds online and fails appends online -> offline and
\* stores offline; a probe that finds offline and succeeds appends
\* offline -> online and stores online; the rows of each camera chain.
C9_OnlineOfflineOnline ==
    /\ (Completed /\ StoredBefore = "online" /\ ret = "False") =>
          /\ Appended = 1
          /\ LastRow.name = camera_name
          /\ LastRow.prev = "online"
          /\ LastRow.new = "offline"
          /\ camera_status[camera_name] = "offline"
    /\ (Completed /\ StoredBefore = "offline" /\ ret = "True") =>
          /\ Appended = 1
          /\ LastRow.name = camera_name
          /\ LastRow.prev = "offline"
          /\ LastRow.new = "online"
          /\ camera_status[camera_name] = "online"
    /\ \A c \in CameraNames : RowsChain(RowsOf(c))

C9_Witness ==
    /\ Completed
    /\ StoredBefore = "offline"
    /\ ret = "True"
    /\ LET rows == RowsOf(camera_name) IN
          /\ Len(rows) >= 3
          /\ rows[Len(rows) - 1].prev = "online"
          /\ rows[Len(rows) - 1].new = "offline"
          /\ rows[Len(rows)].prev = "offline"
          /\ rows[Len(rows)].new = "online"

\* the globals and the number of mails are as they were on entry
UnchangedSinceEntry ==
    /\ camera_status = entry.camera_status
    /\ status_changes = entry.status_changes
    /\ sno_counter = entry.sno_counter
    /\ sends = entry.sends

\* C10: a probe whose outcome equals the stored status of its camera never
\* reaches log_status_change or send_email_alert and leaves every camera's
\* status, the history, the counter and the number of mails as they were.
C10_SameOutcomeNoEffect ==
    /\ (pc \in {"compare", "set_status", "return"} /\ new_status = StoredBefore)
          => UnchangedSinceEntry
    /\ (pc \in {"log_append", "log_incr", "log_mail", "send"})
          => new_status # StoredBefore
    /\ (Completed /\ OutcomeStatus = StoredBefore) => UnchangedSinceEntry

C10_Witness ==
    /\ Completed
    /\ StoredBefore = "offline"
    /\ ret = "False"
    /\ UnchangedSinceEntry
    /\ Len(status_changes) >= 1

\* the probe that has just completed appended a row and its mail failed
FailedMailProbe == Completed /\ Appended = 1 /\ email_log = "error"

\* C11: a send that fails is swallowed: send_email_alert is only left for the
\* status update, with its outcome logged and no global changed, or by the
\* interrupt, which logs nothing; a probe whose mail failed
\* has returned its outcome, stored the status of that outcome, kept its row
\* and its S.No, and main_loop is at its for statement, ready for the next
\* camera or the next cycle.
C11_MailFailureSwallowed ==
    /\ [][pc = "send" =>
             \/ /\ pc' = "set_status"
                /\ email_log' \in {"sent", "error"}
                /\ UNCHANGED <<globals, locals, sends>>
             \/ /\ pc' = "stopped"
                /\ UNCHANGED email_log]_vars
    /\ [](FailedMailProbe =>
             /\ ret \in {"True", "False"}
             /\ camera_status[camera_name] = OutcomeStatus
             /\ LastRow.name = camera_name
             /\ LastRow.new = OutcomeStatus
             /\ LastRow.sno = entry.sno_counter
             /\ sno_counter = entry.sno_counter + 1
             /\ pc = "main_for"
             /\ (Len(status_changes) < MaxEvents =>
                    ENABLED (CallCheckCamera \/ IntervalSleep)))

C11_Witness ==
    /\ FailedMailProbe
    /\ ret = "False"
    /\ idx = 1
    /\ camera_name = CAMERAS[Len(CAMERAS)]
    /\ Len(status_changes) < MaxEvents

\* C12: while send_email_alert runs, the body holds the whole history: row
\* i carries S.No i, the last row is the one of the probe in progress, and
\* there are as many rows as S.Nos handed out.
C12_MailHoldsWholeHistory ==
    pc = "send" =>
       /\ body_html = status_changes
       /\ Len(body_html) = sno_counter - 1
       /\ Len(body_html) = Len(entry.status_changes) + 1
       /\ \A i \in 1..Len(body_html) : body_html[i].sno = i
       /\ body_html[Len(body_html)].name = camera_name
       /\ body_html[Len(body_html)].new = new_status

C12_Witness ==
    /\ pc = "send"
    /\ Len(body_html) >= 3
    /\ \E i \in 1..Len(body_html) : body_html[i].name # camera_name

\* C13: send_email_alert is invoked once for each row, in the probe that
\* appended it: between probes there are as many invocations as rows, and
\* the count only moves, by one, in the step that follows the increment of
\* the S.No of a fresh row.
C13_OneSendPerEvent ==
    /\ [](pc = "main_for" => sends = Len(status_changes))
    /\ [](sends <= Len(status_changes))
    /\ [][sends' # sends =>
             /\ sends' = sends + 1
             /\ pc = "log_mail"
             /\ sends = Len(status_changes) - 1]_vars

C13_Witness ==
    /\ pc = "main_for"
    /\ email_log = "error"
    /\ sends = Len(status_changes)
    /\ sends >= 2
    /\ run[camera_name].len >= 2

\* ---------------------------------------------------------------- the loop left running
\* main_loop without the interrupt and without the bound on the calls.  To
\* keep the history within MaxEvents rows, the cameras stop changing once
\* it is full: from then on a camera that is stored online opens and hands
\* back a valid frame at once, and a camera that is stored offline never
\* hands back a valid frame.  Until then every open, read and mail outcome
\* is possible, as in Spec.
Saturated == Len(status_changes) >= MaxEvents

LiveCallCheckCamera ==
    /\ pc = "main_for"
    /\ idx <= Len(CAMERAS)
    /\ camera_name' = CAMERAS[idx]
    /\ prev_status' = camera_status[CAMERAS[idx]]
    /\ new_status' = None
    /\ attempt' = 1
    /\ elapsed' = 0
    /\ ret' = None
    /\ entry' = [camera_status |-> camera_status,
                 status_changes |-> status_changes,
                 sno_counter |-> sno_counter, sends |-> sends]
    /\ failed' = 0
    /\ failed_open' = 0
    /\ reads' = 0
    /\ valid_seen' = FALSE
    /\ pc' = "for_attempt"
    /\ UNCHANGED <<globals, mail, idx, cap_open, run>>

LiveOpenCapture ==
    /\ OpenCapture
    /\ (Saturated /\ prev_status = "online") => pc' = "while_window"

LiveReadFrame ==
    /\ ReadFrame
    /\ Saturated => (pc' = "release_ok" <=> prev_status = "online")

LiveNext ==
    \/ LiveCallCheckCamera
    \/ IntervalSleep
    \/ ForAttempt
    \/ LiveOpenCapture
    \/ Backoff
    \/ WhileWindow
    \/ LiveReadFrame
    \/ PollSleep
    \/ ReleaseFailed
    \/ ReleaseOk
    \/ AllFailed
    \/ Compare
    \/ LogAppend
    \/ LogIncr
    \/ LogMail
    \/ SendEmail
    \/ SetStatus
    \/ Return

\* a single thread that always runs its next statement; sleeps end, and the
\* stream and the mail server answer or time out
LiveSpec == Init /\ [][LiveNext]_vars /\ WF_vars(LiveNext)

\* C14: without an interrupt main_loop never stops; every probe that is
\* under way completes with True or False; every cycle reaches its end and
\* a new cycle starts again and again; every camera is probed again and
\* again.
C14_LoopNeverStops ==
    /\ [](pc # "stopped")
    /\ (pc # "main_for") ~> (Completed /\ ret \in {"True", "False"})
    /\ []<>(pc = "main_for" /\ idx = Len(CAMERAS) + 1)
    /\ []<>(pc = "main_for" /\ idx = 1)
    /\ \A c \in CameraNames : []<>(pc = "return" /\ camera_name = c)

C14_Witness ==
    /\ pc = "main_for"
    /\ idx = 1
    /\ email_log = "error"
    /\ failed_open >= 1
    /\ failed > failed_open
    /\ \A c \in CameraNames : run[c].len >= 2

\* C15 as stated: while send_email_alert runs for a row of camera c, the
\* stored status of c is already the row's new status.
C15_StatusStoredBeforeSend ==
    pc = "send" => camera_status[camera_name] = LastRow.new

\* C16 as stated: when main_loop has been stopped, the append, the increment
\* and the status update of the last probe have all happened or none has.
C16_StopNotMidMutation ==
    pc = "stopped" =>
       \/ /\ status_changes = entry.status_changes
          /\ sno_counter = entry.sno_counter
          /\ camera_status = entry.camera_status
       \/ /\ Appended = 1
          /\ sno_counter = entry.sno_counter + 1
          /\ camera_status[camera_name] = LastRow.new

\* statements of check_camera, log_status_change and send_email_alert
ProbePcs ==
    {"for_attempt", "open", "backoff", "while_window", "read", "poll_sleep",
     "release_failed", "release_ok", "all_failed", "compare", "log_append",
     "log_incr", "log_mail", "send", "set_status", "return"}

\* C17: one probe at a time, in the order of the for loop: while a probe is
\* under way it is the probe of CAMERAS[idx] and the loop has not moved;
\* the loop only advances by the return of that probe and only wraps round
\* when every camera's probe has returned; and until the probe stores its
\* outcome, the stored status of its camera is the one it read on entry.
C17_ProbesNeverOverlap ==
    /\ [](pc \in ProbePcs =>
            /\ idx \in 1..Len(CAMERAS)
            /\ camera_name = CAMERAS[idx]
            /\ ret = None)
    /\ [](pc \in ProbePcs \ {"return"} =>
            /\ camera_status[camera_name] = prev_status
            /\ prev_status = StoredBefore)
    /\ [][idx' # idx =>
             \/ /\ pc = "return" /\ pc' = "main_for"
                /\ idx' = idx + 1
                /\ ret' \in {"True", "False"}
             \/ /\ pc = "main_for" /\ pc' = "main_for"
                /\ idx = Len(CAMERAS) + 1 /\ idx' = 1]_vars
    /\ [][(pc = "main_for" /\ pc' \in ProbePcs) =>
             /\ pc' = "for_attempt"
             /\ camera_name' = CAMERAS[idx]
             /\ prev_status' = camera_status[CAMERAS[idx]]]_vars

C17_Witness ==
    /\ pc = "compare"
    /\ idx = Len(CAMERAS)
    /\ prev_status = "online"
    /\ new_status = "offline"
    /\ camera_status[camera_name] = "online"
    /\ \A c \in CameraNames : run[c].len >= 2

\* C18: from the entry of a probe until its outcome is compared, every
\* camera's status, the history, the counter and the number of mails are as
\* on entry; at any point of the probe the other cameras' statuses are as on
\* entry and at most one row and one S.No have been added; the status only
\* changes in the statement that stores the outcome, for the probed camera.
C18_AttemptsTouchNothing ==
    /\ [](pc \in {"for_attempt", "open", "backoff", "while_window", "read",
                  "poll_sleep", "release_failed", "release_ok", "all_failed",
                  "compare"} => UnchangedSinceEntry)
    /\ []((pc \in ProbePcs \/ Completed) =>
            /\ \A c \in CameraNames \ {camera_name} :
                  camera_status[c] = entry.camera_status[c]
            /\ Appended \in {0, 1}
            /\ sno_counter - entry.sno_counter \in {0, 1}
            /\ sends - entry.sends \in {0, 1})
    /\ [][camera_status' # camera_status =>
             /\ pc = "set_status"
             /\ \A c \in CameraNames \ {camera_name} :
                   camera_status'[c] = camera_status[c]]_vars
    /\ [][status_changes' # status_changes => pc = "log_append"]_vars
    /\ [][sno_counter' # sno_counter => pc = "log_incr"]_vars

C18_Witness ==
    /\ pc = "compare"
    /\ new_status = "offline"
    /\ prev_status = "online"
    /\ failed_open >= 1
    /\ failed > failed_open
    /\ Len(status_changes) >= 2
    /\ UnchangedSinceEntry

\* C19: no stream is open when a probe opens one, when the outcome is
\* recorded, or between probes; a stream is only open in the read loop of
\* the attempt that opened it.
C19_SourceClosed ==
    /\ (pc \in {"for_attempt", "open", "backoff", "all_failed", "compare",
                "log_append", "log_incr", "log_mail", "send", "set_status",
                "return", "main_for"} => ~cap_open)
    /\ (cap_open => pc \in {"while_window", "read", "poll_sleep",
                            "release_failed", "release_ok", "stopped"})

C19_Witness ==
    /\ Completed
    /\ ~cap_open
    /\ ret = "True"
    /\ failed >= 2
    /\ failed_open = 0

\* C20: between probes a camera's status is None exactly when the history
\* has no row for it, and otherwise is the new status of its latest row;
\* the counter is the number of rows plus one.
C20_TrackerAgreesWithHistory ==
    pc = "main_for" =>
       /\ sno_counter = Len(status_changes) + 1
       /\ \A c \in CameraNames :
             LET rows == RowsOf(c) IN
                /\ (camera_status[c] = None) <=> (rows = <<>>)
                /\ rows # <<>> => camera_status[c] = rows[Len(rows)].new

C20_Witness ==
    /\ pc = "main_for"
    /\ Len(status_changes) >= 3
    /\ camera_status[CAMERAS[1]] = "offline"
    /\ camera_status[CAMERAS[2]] = "online"
    /\ Len(RowsOf(CAMERAS[1])) >= 2

====
